---- MODULE Spec2Model ----
(***************************************************************************)
(* Streaming tool-call orchestration of the AI writing assistant:          *)
(*   OpenAIAgent            (agents/openai/OpenAIAgent.ts)                 *)
(*   GeminiResponseHandler  (agents/openai/GeminiResponseHandler.ts)       *)
(*   agent registry         (index.ts: /start-ai-agent, ...)               *)
(* JavaScript runs each callback to its next await before anything else    *)
(* runs: an action below is one such synchronous segment.  The variable    *)
(* cpu names the handler whose segment is still running (0: event loop     *)
(* idle), so that a segment split over several actions stays atomic.       *)
(***************************************************************************)
EXTENDS Integers, Sequences, FiniteSets, TLC

(* ------------------------------ bounds -------------------------------- *)
\* frames per turn, stop events and failing collaborator calls per run (Spec);
\* the same for SpecPass; turns and completed earlier turns (SpecHist);
\* concurrent /start-ai-agent requests (SpecReg)
MaxFrames == 2
MaxStops == 2
MaxFails == 1
MaxPassFrames == 3
MaxPassStops == 1
MaxTurns == 2
MaxPriorTurns == 10
MaxCalls == 3
MaxArgFrames == 4
MaxTextFrames == 11
MaxIgnored == 2
MaxStopCalls == 2
MaxSweeps == 2
MaxClock == 2

(* ------------------------- program constants -------------------------- *)
HistoryLimit == 21
KeepLast == 20
ChunksPerUpdate == 5
\* inactivityThreshold (480 * 60 * 1000 ms): the unit in which time is counted
InactivityThreshold == 1

Handlers == {1, 2}
None == "none"

VARIABLES
    history,      \* OpenAIAgent.conversationHistory: Seq of [role, content]
    lastTask,     \* the writing context of the current system prompt
    handlers,     \* OpenAIAgent.handlers
    hm,           \* the running handleMessage: its position and awaited result
    msgCreated,   \* the placeholder message of the turn exists
    turnsLeft,    \* inbound user turns still to come
    hs,           \* per handler: the fields of GeminiResponseHandler and run()'s locals
    pc,           \* per handler: position of run()
    cur,          \* per handler: the frame being processed
    subscribed,   \* handlers listening to "ai_indicator.stop"
    tc,           \* handleToolCall: its position, arguments and toolResult
    stopPc,       \* per handler and stop event: position of handleStopGenerating
    stopsLeft,    \* stop events still to come
    budget,       \* frames per stream and collaborator failures of this run
    cpu,          \* the handler whose synchronous segment is running, 0 if none
    tr,           \* the chat transport and model API as seen from outside
    cache,        \* index.ts aiAgentCache (one channel key): the installed agent or 0
    pending,      \* index.ts pendingAiAgents contains the key
    callPc,       \* per /start-ai-agent request: its position
    agentSt,      \* per request: the state of the Agent it constructed
    installs,     \* the requests whose Agent was put into aiAgentCache, in order
    clock,        \* Date.now(), in units of the inactivity threshold
    lastTs,       \* per Agent (named by the request that constructed it):
                  \* lastInteractionTs
    op,           \* per /stop-ai-agent request and idle sweep pass: its position,
                  \* the Agent it holds, the time and timestamp it compared, and
                  \* what its aiAgentCache.delete removed
    life          \* the Agent outside a turn: listening to "message.new", connected
                  \* to the chat transport, position of dispose(),
                  \* lastInteractionTs, the last inbound event

turnVars == <<history, lastTask, handlers, hm, msgCreated, turnsLeft, hs, pc, cur,
              subscribed, tc, stopPc, stopsLeft, budget, cpu, tr>>
opVars == <<clock, lastTs, op>>
regVars == <<cache, pending, callPc, agentSt, installs, opVars>>
vars == <<turnVars, regVars, life>>

(* ------------------------------ texts --------------------------------- *)
\* A text is a sequence of tokens; "+=" is concatenation.
StopMarker == <<"STOPPED">>
Apology == <<"SORRY">>
ToolApology == <<"SEARCH_ERROR">>

\* a variant that puts the new content first
PrependText(text, c) == c \o text

\* this.message_text += choice.delta.content
AppendText(text, c) == text \o c

IsPrefix(s, t) == Len(s) <= Len(t) /\ SubSeq(t, 1, Len(s)) = s

\* getWritingAssistantPrompt(context)
Prompt(context) == <<"PROMPT", IF context = "" THEN "General writing assistance." ELSE context>>

(* --------------------------- history ---------------------------------- *)
Entry(role, content) == [role |-> role, content |-> content]

\* conversationHistory.slice(-20)
LastN(s, n) == IF Len(s) <= n THEN s ELSE SubSeq(s, Len(s) - n + 1, Len(s))

\* a variant that keeps the last 21 entries and not entry 0
CapHistoryNoSystem(h) == IF Len(h) > HistoryLimit THEN LastN(h, HistoryLimit) ELSE h

\* if (length > 21) history = [history[0], ...history.slice(-20)]
CapHistory(h) == IF Len(h) > HistoryLimit THEN <<h[1]>> \o LastN(h, KeepLast) ELSE h

\* the onComplete callback of both passes
OnComplete(h, text) == CapHistory(Append(h, Entry("assistant", text)))

\* handleMessage: push of the user entry, then the in-place prompt rewrite
PushUser(h, m) ==
    LET pushed == Append(h, Entry("user", <<m.text>>))
    IN  IF m.task # ""
        THEN [pushed EXCEPT ![1].content = Prompt(m.task)]
        ELSE pushed

\* handleToolCall: the search result becomes a system entry
PushToolResult(h, query, result) ==
    Append(h, Entry("system", <<"RESULTS_FOR", query, result>>))

(* ------------------------- web search --------------------------------- *)
\* What the search provider does with one request.
ProviderOutcomes ==
    { [key |-> FALSE, fetchThrows |-> FALSE, ok |-> TRUE, textThrows |-> FALSE,
       jsonThrows |-> FALSE, results |-> 0, answer |-> FALSE, badResult |-> FALSE] }
    \cup
    { [key |-> TRUE, fetchThrows |-> ft, ok |-> ok, textThrows |-> tt,
       jsonThrows |-> jt, results |-> n, answer |-> a, badResult |-> b] :
         ft \in BOOLEAN, ok \in BOOLEAN, tt \in BOOLEAN, jt \in BOOLEAN,
         n \in {0, 2}, a \in BOOLEAN, b \in BOOLEAN }

\* The try block of performWebSearch: what it returns, or that it threw.
SearchTry(o) ==
    IF ~o.key THEN [threw |-> FALSE, value |-> "NOT_AVAILABLE_MISSING_KEY"]
    ELSE IF o.fetchThrows THEN [threw |-> TRUE, value |-> ""]
    ELSE IF ~o.ok
         THEN IF o.textThrows THEN [threw |-> TRUE, value |-> ""]
              ELSE [threw |-> FALSE, value |-> "SEARCH_FAILED_STATUS"]
    ELSE IF o.jsonThrows THEN [threw |-> TRUE, value |-> ""]
    ELSE IF o.results > 0
         THEN IF o.badResult THEN [threw |-> TRUE, value |-> ""]
              ELSE IF o.answer THEN [threw |-> FALSE, value |-> "QUICK_ANSWER_AND_RESULTS"]
              ELSE [threw |-> FALSE, value |-> "FOUND_RESULTS"]
    ELSE [threw |-> FALSE, value |-> "NO_RESULTS"]

\* The try block of the earlier performWebSearch (no response.ok check, no answer)
SearchTryV1(o) ==
    IF ~o.key THEN [threw |-> FALSE, value |-> "NOT_AVAILABLE_MISSING_KEY"]
    ELSE IF o.fetchThrows THEN [threw |-> TRUE, value |-> ""]
    ELSE IF o.jsonThrows THEN [threw |-> TRUE, value |-> ""]
    ELSE IF o.results > 0
         THEN IF o.badResult THEN [threw |-> TRUE, value |-> ""]
              ELSE [threw |-> FALSE, value |-> "FOUND_RESULTS"]
    ELSE [threw |-> FALSE, value |-> "NO_RESULTS"]

\* a variant without the catch block
SearchCatchMissing(body) ==
    [raised |-> body.threw, value |-> body.value]

\* The catch block of performWebSearch
SearchCatch(body) ==
    IF body.threw THEN [raised |-> FALSE, value |-> "ERROR_PERFORMING_SEARCH"]
    ELSE [raised |-> FALSE, value |-> body.value]

PerformWebSearch(o) == SearchCatch(SearchTry(o))

PerformWebSearchV1(o) == SearchCatch(SearchTryV1(o))

\* the strings performWebSearch can return
SearchStrings ==
    {"NOT_AVAILABLE_MISSING_KEY", "SEARCH_FAILED_STATUS", "QUICK_ANSWER_AND_RESULTS",
     "FOUND_RESULTS", "NO_RESULTS", "ERROR_PERFORMING_SEARCH"}

\* Does the call reach the network (a suspension point)?
SearchSuspends(o) == o.key

(* ---------------------- tool-call arguments --------------------------- *)
\* Argument text arrives in fragments: "O" is {"query": , "C" is "x"} , "L" is
\* "latest , "D" is  AI news"} and "S" is white space.
NonSpace(tok) == tok # "S"

\* the buffer without its leading and trailing white space
Trim(buf) ==
    LET idx == {i \in 1..Len(buf) : NonSpace(buf[i])}
    IN  IF idx = {} THEN <<>>
        ELSE SubSeq(buf, CHOOSE i \in idx : \A j \in idx : i <= j,
                         CHOOSE i \in idx : \A j \in idx : j <= i)

\* what follows {"query": in the buffer, or <<>> when the buffer does not start so
ArgValue(buf) ==
    IF Len(Trim(buf)) >= 2 /\ Trim(buf)[1] = "O" THEN Trim(Tail(Trim(buf))) ELSE <<>>

\* n blanks (white space inside the string is part of the query)
RECURSIVE Blanks(_)
Blanks(n) == IF n = 0 THEN "" ELSE " " \o Blanks(n - 1)

\* tool_call_buffer.trim() is empty
TrimEmpty(buf) == SelectSeq(buf, NonSpace) = <<>>

\* JSON.parse(tool_call_buffer) succeeds (white space between tokens is allowed)
ParseOk(buf) ==
    LET v == ArgValue(buf)
    IN  \/ v = <<"C">>
        \/ /\ Len(v) >= 2 /\ v[1] = "L" /\ v[Len(v)] = "D"
           /\ \A i \in 2..(Len(v) - 1) : v[i] = "S"

\* the parsed arguments
ParseArgs(buf) ==
    LET v == ArgValue(buf)
    IN  [query |-> IF v = <<"C">> THEN "x"
                   ELSE "latest" \o Blanks(Len(v) - 2) \o " AI news"]

(* ------------------------------ frames -------------------------------- *)
Frame(nochoice, content, hasTc, tcName, tcId, tcArgs, fin) ==
    [nochoice |-> nochoice, content |-> content, hasTc |-> hasTc, tcName |-> tcName,
     tcId |-> tcId, tcArgs |-> tcArgs, fin |-> fin]

TextFrame(c, fin) == Frame(FALSE, c, FALSE, "", "", <<>>, fin)
ToolFrame(name, id, args, fin) == Frame(FALSE, <<>>, TRUE, name, id, args, fin)
NoFrame == Frame(TRUE, <<>>, FALSE, "", "", <<>>, None)

\* The frames a model stream delivers (ChatCompletionChunk).
FrameSet ==
    { TextFrame(<<"a">>, None), TextFrame(<<"b">>, None), TextFrame(<<"b">>, "stop"),
      TextFrame(<<>>, "stop"), TextFrame(<<>>, "tool_calls"),
      ToolFrame("web_search", "call1", <<>>, None),
      ToolFrame("web_search", "call1", <<"O", "C">>, "tool_calls"),
      ToolFrame("", "", <<"O">>, None),
      ToolFrame("", "", <<"C">>, None),
      ToolFrame("", "", <<"C">>, "tool_calls"),
      ToolFrame("", "", <<"S">>, "tool_calls"),
      ToolFrame("other_tool", "call2", <<>>, None),
      NoFrame }

IsTextFrame(f) == ~f.nochoice /\ ~f.hasTc /\ f.fin \in {None, "stop"}

\* the frames of a text-only stream
TextFrames == {f \in FrameSet : IsTextFrame(f)}

(* --------------------- transport, as observed ------------------------- *)
\* Writers: a handler (1: first pass, 2: second pass) or the Agent itself (0).
Writers == {0} \cup Handlers

NewTransport(fails) ==
    [msg |-> <<>>, indicator |-> None, nWrites |-> 0, nEvents |-> 0,
     termEvents |-> [w \in Writers |-> 0], finalWrites |-> [w \in Writers |-> 0],
     lastWrite |-> [w \in Writers |-> <<>>], finishText |-> [w \in Writers |-> <<>>],
     pendingUpd |-> [w \in Writers |-> 0],
     grew |-> [w \in Writers |-> TRUE], completes |-> [w \in Writers |-> 0],
     completeArg |-> [w \in Writers |-> <<>>], reqLog |-> <<>>, searchCount |-> 0,
     searchRaised |-> FALSE, toolCalls |-> 0, reqFails |-> 0, fails |-> fails]

\* The outcomes a collaborator call may have in this run.
OkSet(t) == IF t.fails < budget.fails THEN {TRUE, FALSE} ELSE {TRUE}

Failed(t, ok) == IF ok THEN t ELSE [t EXCEPT !.fails = @ + 1]

Terminal(state) == state \in {"AI_STATE_DONE", "AI_STATE_ERROR"}

\* chatClient.partialUpdateMessage(message.id, {set: {text}}) issued by w; kind is
\* "update" (updateMessage), "finish", "error" or "stop" (the final writes)
Write(t, w, text, ok, kind) ==
    LET t1 == [Failed(t, ok) EXCEPT !.pendingUpd[w] = @ + 1]
    IN  IF ok
        THEN [t1 EXCEPT !.msg = text, !.nWrites = @ + 1, !.lastWrite[w] = text,
                        !.grew[w] = @ /\ IsPrefix(t.lastWrite[w], text),
                        !.finalWrites[w] = @ + (IF kind # "update" THEN 1 ELSE 0),
                        !.finishText[w] = IF kind = "finish" THEN text ELSE @]
        ELSE t1

\* the awaited partialUpdateMessage of w settles
Resolve(t, w) == [t EXCEPT !.pendingUpd[w] = @ - 1]

\* channel.sendEvent({type: "ai_indicator.update", ai_state}) issued by w
Event(t, w, state, ok) ==
    IF ok
    THEN [t EXCEPT !.indicator = state, !.nEvents = @ + 1,
                   !.termEvents[w] = @ + (IF Terminal(state) THEN 1 ELSE 0)]
    ELSE Failed(t, ok)

\* openai.chat.completions.create({messages, stream: true, tools?})
Request(t, tools, ok) ==
    [Failed(t, ok) EXCEPT !.reqLog = Append(@, tools),
                          !.reqFails = @ + (IF ok THEN 0 ELSE 1)]

FirstRequestTools == TRUE
\* handleToolCall's follow-up request passes no tools
FollowUpRequestTools == FALSE

(* --------------------------- handlers --------------------------------- *)
\* no "ai_indicator.stop" event
NoEvent == [cid |-> "", message_id |-> ""]

\* new GeminiResponseHandler(...), with the locals of run().  updated: a partial
\* update has been written (last_update_time is set); res: the result of the
\* awaited call; delivered: the content of the frames received, in order;
\* textOnly: the stream has delivered text frames only and has not thrown;
\* argsSeen: the argument fragments of the frames received, in order;
\* threw: iterating the stream has thrown; stoppedAt: where run() was when the
\* first stop event reached the handler, and stoppedBy: that event; ignored: the
\* stop events its listener has returned from at the id guard; buffered: the text
\* frames appended to message_text since updateMessage() last issued a write.
NewHandler ==
    [is_done |-> FALSE, message_text |-> <<>>, chunk_counter |-> 0, updated |-> FALSE,
     tool_call_buffer |-> <<>>, current_tool_name |-> "", current_tool_call_id |-> "",
     is_tool_call |-> FALSE, lastFinishReason |-> None, frames |-> 0, res |-> TRUE,
     delivered |-> <<>>, textOnly |-> TRUE, argsSeen |-> <<>>, threw |-> FALSE,
     stoppedAt |-> None, stoppedBy |-> NoEvent, ignored |-> 0, buffered |-> 0]

\* a variant that hands the callback to both handlers
HasOnToolCallAlways(h) == TRUE
\* only the first-pass handler is given the onToolCall callback
HasOnToolCall(h) == h = 1

NewTc == [pc |-> "idle", res |-> TRUE, args |-> [query |-> ""], result |-> ""]

NoStops == [h \in Handlers |-> [k \in 1..MaxStops |-> "none"]]

\* index of the next stop event
StopIndex == MaxStops - stopsLeft + 1

(* ------------------- GeminiResponseHandler.run ------------------------ *)
\* dispose(): chatClient.off("ai_indicator.stop"), onDispose() -> removeHandler
Dispose(h) ==
    /\ subscribed' = subscribed \ {h}
    /\ handlers' = handlers \ {h}

\* run() of h returns; when handleToolCall awaits it, handleToolCall goes on at once
Return(h) ==
    /\ pc' = [pc EXCEPT ![h] = "ret"]
    /\ cpu' = IF h = 2 /\ tc.pc = "t_run" THEN 3 ELSE 0

Goto(h, where) ==
    /\ pc' = [pc EXCEPT ![h] = where]
    /\ cpu' = h

Await(h, where) ==
    /\ pc' = [pc EXCEPT ![h] = where]
    /\ cpu' = 0

\* frames the streams of this turn have delivered so far
FramesSeen == hs[1].frames + hs[2].frames

\* if (choice.delta.tool_calls ...): is_tool_call, id and name
ToolDeltaFields(g, f) ==
    IF f.hasTc
    THEN [g EXCEPT !.is_tool_call = TRUE,
                   !.current_tool_call_id = IF f.tcId # "" THEN f.tcId ELSE @,
                   !.current_tool_name = IF f.tcName # "" THEN f.tcName ELSE @]
    ELSE g

\* a variant that keeps the last fragment only
ArgsFieldsLast(g, f) ==
    IF f.hasTc /\ f.tcArgs # <<>>
    THEN [g EXCEPT !.tool_call_buffer = f.tcArgs]
    ELSE g

\* if (toolCall.function?.arguments) tool_call_buffer += argsChunk
ArgsFields(g, f) ==
    IF f.hasTc /\ f.tcArgs # <<>>
    THEN [g EXCEPT !.tool_call_buffer = @ \o f.tcArgs]
    ELSE g

\* message_text += content; chunk_counter++
ContentFields(g, f) ==
    [g EXCEPT !.message_text = AppendText(@, f.content), !.chunk_counter = @ + 1,
              !.buffered = @ + 1]

\* a variant of the debounce that looks at the elapsed time only
UpdateDueElapsedOnly(g, elapsed) == elapsed

\* now - last_update_time > 100 || chunk_counter % 5 === 0
UpdateDue(g, elapsed) == elapsed \/ g.chunk_counter % ChunksPerUpdate = 0

\* where the finish_reason checks at the end of the loop body lead
AfterChecks(h, g, fin) ==
    IF fin = "stop" THEN "finmsg"
    ELSE IF fin = "tool_calls"
    THEN IF g.current_tool_name = "web_search" /\ HasOnToolCall(h) THEN "parse"
         ELSE IF g.current_tool_name # "" /\ ~HasOnToolCall(h) THEN "finmsg"
         ELSE "postloop"
    ELSE "loop"

\* the loop body is left with the handler's fields g
EndOfBody(h, g, fin) ==
    /\ hs' = [hs EXCEPT ![h] = g]
    /\ pc' = [pc EXCEPT ![h] = AfterChecks(h, g, fin)]
    /\ cpu' = IF AfterChecks(h, g, fin) = "loop" THEN 0 ELSE h
    /\ cur' = [cur EXCEPT ![h] = NoFrame]

\* the loop body from the argument fragment on: the content, the debounced
\* updateMessage() (a suspension point when it writes), the finish_reason checks
BodyFrom(h, g0, f) ==
    LET g == ArgsFields(g0, f)
        g2 == ContentFields(g, f)
    IN  IF f.content = <<>>
        THEN EndOfBody(h, g, f.fin) /\ UNCHANGED tr
        ELSE \E elapsed \in (IF g.updated THEN BOOLEAN ELSE {TRUE}) :
               IF UpdateDue(g2, elapsed)
               THEN IF g2.is_done
                    THEN EndOfBody(h, [g2 EXCEPT !.updated = TRUE], f.fin) /\ UNCHANGED tr
                    ELSE \E ok \in OkSet(tr) :
                           /\ tr' = Write(tr, h, g2.message_text, ok, "update")
                           /\ hs' = [hs EXCEPT ![h] = [g2 EXCEPT !.buffered = 0]]
                           /\ cur' = [cur EXCEPT ![h] = f]
                           /\ Await(h, "upd")
               ELSE EndOfBody(h, g2, f.fin) /\ UNCHANGED tr

\* for await (const chunk of this.stream): the next frame arrives and is processed
\* up to the first await of the loop body
NextFrame(h, f) ==
    /\ cpu = 0 /\ pc[h] = "loop" /\ FramesSeen < budget.frames
    /\ LET g == [hs[h] EXCEPT !.frames = @ + 1,
                              !.delivered = @ \o f.content,
                              !.argsSeen = @ \o f.tcArgs,
                              !.textOnly = @ /\ IsTextFrame(f)]
           g1 == ToolDeltaFields([g EXCEPT !.lastFinishReason =
                                            IF f.fin # None THEN f.fin ELSE @], f)
       IN  IF g.is_done
           THEN /\ hs' = [hs EXCEPT ![h] = g]
                /\ Goto(h, "postloop")
                /\ UNCHANGED <<cur, tr>>
           ELSE IF f.nochoice
           THEN /\ hs' = [hs EXCEPT ![h] = g]
                /\ Await(h, "loop")
                /\ UNCHANGED <<cur, tr>>
           ELSE IF f.hasTc /\ f.tcName # ""
           THEN \E ok \in OkSet(tr) :
                  /\ tr' = Event(tr, h, "AI_STATE_EXTERNAL_SOURCES", ok)
                  /\ hs' = [hs EXCEPT ![h] = [g1 EXCEPT !.res = ok]]
                  /\ cur' = [cur EXCEPT ![h] = f]
                  /\ Await(h, "evExt")
           ELSE BodyFrom(h, g1, f)
    /\ UNCHANGED <<history, lastTask, handlers, hm, msgCreated, turnsLeft, subscribed,
                   tc, stopPc, stopsLeft, budget>>
    /\ UNCHANGED <<regVars, life>>

\* the stream ends
StreamEnd(h) ==
    /\ cpu = 0 /\ pc[h] = "loop"
    /\ Goto(h, "postloop")
    /\ UNCHANGED <<history, lastTask, handlers, hm, msgCreated, turnsLeft, hs, cur,
                   subscribed, tc, stopPc, stopsLeft, budget, tr>>
    /\ UNCHANGED <<regVars, life>>

\* a variant whose catch swallows the error
StreamThrowSilent(h) ==
    /\ cpu = 0 /\ pc[h] = "loop" /\ FALSE \in OkSet(tr)
    /\ tr' = Failed(tr, FALSE)
    /\ hs' = [hs EXCEPT ![h].textOnly = FALSE, ![h].threw = TRUE]
    /\ Return(h)
    /\ UNCHANGED <<history, lastTask, handlers, hm, msgCreated, turnsLeft, cur,
                   subscribed, tc, stopPc, stopsLeft, budget>>
    /\ UNCHANGED <<regVars, life>>

\* iterating the stream throws: the catch of run()
StreamThrow(h) ==
    /\ cpu = 0 /\ pc[h] = "loop" /\ FALSE \in OkSet(tr)
    /\ tr' = Failed(tr, FALSE)
    /\ hs' = [hs EXCEPT ![h].textOnly = FALSE, ![h].threw = TRUE]
    /\ Goto(h, "herror")
    /\ UNCHANGED <<history, lastTask, handlers, hm, msgCreated, turnsLeft, cur,
                   subscribed, tc, stopPc, stopsLeft, budget>>
    /\ UNCHANGED <<regVars, life>>

\* the awaited sendEvent of the tool-call delta settled: the rest of the loop
\* body, or the catch of run()
ToolDeltaResume(h) ==
    /\ cpu = 0 /\ pc[h] = "evExt"
    /\ IF hs[h].res
       THEN BodyFrom(h, hs[h], cur[h])
       ELSE /\ Goto(h, "herror")
            /\ cur' = [cur EXCEPT ![h] = NoFrame]
            /\ UNCHANGED <<hs, tr>>
    /\ UNCHANGED <<history, lastTask, handlers, hm, msgCreated, turnsLeft, subscribed,
                   tc, stopPc, stopsLeft, budget>>
    /\ UNCHANGED <<regVars, life>>

\* updateMessage's partialUpdateMessage settled (a failure is caught and logged):
\* last_update_time = now, then the finish_reason checks
UpdateResume(h) ==
    /\ cpu = 0 /\ pc[h] = "upd"
    /\ tr' = Resolve(tr, h)
    /\ EndOfBody(h, [hs[h] EXCEPT !.updated = TRUE], cur[h].fin)
    /\ UNCHANGED <<history, lastTask, handlers, hm, msgCreated, turnsLeft, subscribed,
                   tc, stopPc, stopsLeft, budget>>
    /\ UNCHANGED <<regVars, life>>

\* a variant without the "never processed" check
PostLoopUnchecked(h) ==
    /\ cpu = h /\ pc[h] = "postloop"
    /\ LET g == hs[h]
       IN  IF /\ g.is_tool_call /\ g.lastFinishReason = "tool_calls"
              /\ g.current_tool_name = "web_search" /\ HasOnToolCall(h)
           THEN Goto(h, "parse")
           ELSE Return(h)
    /\ UNCHANGED <<history, lastTask, handlers, hm, msgCreated, turnsLeft, hs, cur,
                   subscribed, tc, stopPc, stopsLeft, budget, tr>>
    /\ UNCHANGED <<regVars, life>>

\* after the loop: the tool-call fallback and the "never processed" check
PostLoop(h) ==
    /\ cpu = h /\ pc[h] = "postloop"
    /\ LET g == hs[h]
       IN  IF /\ g.is_tool_call /\ g.lastFinishReason = "tool_calls"
              /\ g.current_tool_name = "web_search" /\ HasOnToolCall(h)
           THEN Goto(h, "parse")
           ELSE IF g.is_tool_call /\ ~g.is_done THEN Goto(h, "herror")
           ELSE Return(h)
    /\ UNCHANGED <<history, lastTask, handlers, hm, msgCreated, turnsLeft, hs, cur,
                   subscribed, tc, stopPc, stopsLeft, budget, tr>>
    /\ UNCHANGED <<regVars, life>>

(* --------------- finishMessage, handleError, tool delegation ---------- *)
\* finishMessage(): the guard, the flag and the final partialUpdateMessage
FinishMessage(h) ==
    /\ cpu = h /\ pc[h] = "finmsg"
    /\ IF hs[h].is_done
       THEN /\ Goto(h, "postloop")
            /\ UNCHANGED <<hs, tr>>
       ELSE \E ok \in OkSet(tr) :
              /\ tr' = Write(tr, h, hs[h].message_text, ok, "finish")
              /\ hs' = [hs EXCEPT ![h].is_done = TRUE, ![h].res = ok]
              /\ Await(h, "fin1")
    /\ UNCHANGED <<history, lastTask, handlers, hm, msgCreated, turnsLeft, cur,
                   subscribed, tc, stopPc, stopsLeft, budget>>
    /\ UNCHANGED <<regVars, life>>

\* finishMessage(): the final write settled; the DONE event, or catch and finally
FinishWritten(h) ==
    /\ cpu = 0 /\ pc[h] = "fin1"
    /\ IF hs[h].res
       THEN \E ok \in OkSet(tr) :
              /\ tr' = Event(Resolve(tr, h), h, "AI_STATE_DONE", ok)
              /\ hs' = [hs EXCEPT ![h].res = ok]
              /\ Await(h, "fin2")
              /\ UNCHANGED <<subscribed, handlers>>
       ELSE /\ tr' = Resolve(tr, h)
            /\ Dispose(h)
            /\ Goto(h, "postloop")
            /\ UNCHANGED hs
    /\ UNCHANGED <<history, lastTask, hm, msgCreated, turnsLeft, cur, tc, stopPc,
                   stopsLeft, budget>>
    /\ UNCHANGED <<regVars, life>>

\* finishMessage(): the DONE event settled; onComplete(message_text), dispose()
FinishSignalled(h) ==
    /\ cpu = 0 /\ pc[h] = "fin2"
    /\ IF hs[h].res
       THEN /\ history' = OnComplete(history, hs[h].message_text)
            /\ tr' = [tr EXCEPT !.completes[h] = @ + 1,
                                !.completeArg[h] = hs[h].message_text]
       ELSE UNCHANGED <<history, tr>>
    /\ Dispose(h)
    /\ Goto(h, "postloop")
    /\ UNCHANGED <<lastTask, hm, msgCreated, turnsLeft, hs, cur, tc, stopPc, stopsLeft,
                   budget>>
    /\ UNCHANGED <<regVars, life>>

\* handleError(): the guard, the flag and the ERROR event
HandleError(h) ==
    /\ cpu = h /\ pc[h] = "herror"
    /\ IF hs[h].is_done
       THEN /\ Return(h)
            /\ UNCHANGED <<hs, tr>>
       ELSE \E ok \in OkSet(tr) :
              /\ tr' = Event(tr, h, "AI_STATE_ERROR", ok)
              /\ hs' = [hs EXCEPT ![h].is_done = TRUE, ![h].res = ok]
              /\ Await(h, "err1")
    /\ UNCHANGED <<history, lastTask, handlers, hm, msgCreated, turnsLeft, cur,
                   subscribed, tc, stopPc, stopsLeft, budget>>
    /\ UNCHANGED <<regVars, life>>

\* handleError(): the event settled; the text so far or the apology is written
ErrorSignalled(h) ==
    /\ cpu = 0 /\ pc[h] = "err1"
    /\ IF hs[h].res
       THEN \E ok \in OkSet(tr) :
              /\ tr' = Write(tr, h, IF hs[h].message_text # <<>>
                                    THEN hs[h].message_text ELSE Apology, ok, "error")
              /\ Await(h, "err2")
              /\ UNCHANGED <<subscribed, handlers>>
       ELSE /\ Dispose(h)
            /\ Return(h)
            /\ UNCHANGED tr
    /\ UNCHANGED <<history, lastTask, hm, msgCreated, turnsLeft, hs, cur, tc, stopPc,
                   stopsLeft, budget>>
    /\ UNCHANGED <<regVars, life>>

\* handleError(): the write settled; finally dispose()
ErrorWritten(h) ==
    /\ cpu = 0 /\ pc[h] = "err2"
    /\ tr' = Resolve(tr, h)
    /\ Dispose(h)
    /\ Return(h)
    /\ UNCHANGED <<history, lastTask, hm, msgCreated, turnsLeft, hs, cur, tc, stopPc,
                   stopsLeft, budget>>
    /\ UNCHANGED <<regVars, life>>

\* finish_reason tool_calls with onToolCall: parse the buffer, then
\* await this.onToolCall(...), which runs handleToolCall up to its first await
ParseToolCall(h) ==
    /\ cpu = h /\ pc[h] = "parse"
    /\ IF TrimEmpty(hs[h].tool_call_buffer) \/ ~ParseOk(hs[h].tool_call_buffer)
       THEN /\ Goto(h, "herror")
            /\ UNCHANGED <<tc, tr>>
       ELSE \E ok \in OkSet(tr) :
              /\ tr' = [Event(tr, 0, "AI_STATE_EXTERNAL_SOURCES", ok)
                          EXCEPT !.toolCalls = @ + 1]
              /\ tc' = [NewTc EXCEPT !.pc = "t_ev1", !.res = ok,
                                     !.args = ParseArgs(hs[h].tool_call_buffer)]
              /\ Await(h, "tool")
    /\ UNCHANGED <<history, lastTask, handlers, hm, msgCreated, turnsLeft, hs, cur,
                   subscribed, stopPc, stopsLeft, budget>>
    /\ UNCHANGED <<regVars, life>>

(* ---------------------- OpenAIAgent.handleToolCall -------------------- *)
\* after the search: the system entry, then the GENERATING event
ToolResultPushed(result) ==
    \E ok \in OkSet(tr) :
      /\ history' = PushToolResult(history, tc.args.query, result)
      /\ tr' = Event(tr, 0, "AI_STATE_GENERATING", ok)
      /\ tc' = [tc EXCEPT !.pc = "t_ev2", !.res = ok, !.result = result]
      /\ cpu' = 0

\* the first sendEvent settled; performWebSearch(toolArgs.query) runs up to its
\* fetch, or to its return when the credential is missing
ToolSearch ==
    /\ cpu = 0 /\ tc.pc = "t_ev1"
    /\ IF tc.res
       THEN \E o \in budget.outcomes :
              LET r == PerformWebSearch(o)
              IN  /\ tc' = [tc EXCEPT !.pc = "t_search", !.res = ~r.raised,
                                      !.result = r.value]
                  /\ tr' = [tr EXCEPT !.searchCount = @ + 1,
                                      !.searchRaised = @ \/ r.raised]
                  /\ cpu' = IF SearchSuspends(o) THEN 0 ELSE 3
       ELSE /\ tc' = [tc EXCEPT !.pc = "t_catch"]
            /\ cpu' = 3
            /\ UNCHANGED tr
    /\ UNCHANGED <<history, lastTask, handlers, hm, msgCreated, turnsLeft, hs, pc, cur,
                   subscribed, stopPc, stopsLeft, budget>>
    /\ UNCHANGED <<regVars, life>>

\* the search settled: toolResult, the system entry, the GENERATING event
ToolSearched ==
    /\ cpu \in {0, 3} /\ tc.pc = "t_search"
    /\ IF tc.res
       THEN ToolResultPushed(tc.result)
       ELSE /\ tc' = [tc EXCEPT !.pc = "t_catch"]
            /\ cpu' = 3
            /\ UNCHANGED <<history, tr>>
    /\ UNCHANGED <<lastTask, handlers, hm, msgCreated, turnsLeft, hs, pc, cur,
                   subscribed, stopPc, stopsLeft, budget>>
    /\ UNCHANGED <<regVars, life>>

\* the GENERATING event settled; the follow-up completion request
ToolFollowUp ==
    /\ cpu = 0 /\ tc.pc = "t_ev2"
    /\ IF tc.res
       THEN \E ok \in OkSet(tr) :
              /\ tr' = Request(tr, FollowUpRequestTools, ok)
              /\ tc' = [tc EXCEPT !.pc = "t_req", !.res = ok]
              /\ cpu' = 0
       ELSE /\ tc' = [tc EXCEPT !.pc = "t_catch"]
            /\ cpu' = 3
            /\ UNCHANGED tr
    /\ UNCHANGED <<history, lastTask, handlers, hm, msgCreated, turnsLeft, hs, pc, cur,
                   subscribed, stopPc, stopsLeft, budget>>
    /\ UNCHANGED <<regVars, life>>

\* the follow-up stream is there: new GeminiResponseHandler (no onToolCall),
\* handlers.push, await followUpHandler.run()
ToolSecondPass ==
    /\ cpu = 0 /\ tc.pc = "t_req"
    /\ IF tc.res
       THEN /\ hs' = [hs EXCEPT ![2] = NewHandler]
            /\ pc' = [pc EXCEPT ![2] = "loop"]
            /\ subscribed' = subscribed \cup {2}
            /\ handlers' = handlers \cup {2}
            /\ tc' = [tc EXCEPT !.pc = "t_run"]
            /\ cpu' = 0
       ELSE /\ tc' = [tc EXCEPT !.pc = "t_catch"]
            /\ cpu' = 3
            /\ UNCHANGED <<hs, pc, subscribed, handlers>>
    /\ UNCHANGED <<history, lastTask, hm, msgCreated, turnsLeft, cur, stopPc, stopsLeft,
                   budget, tr>>
    /\ UNCHANGED <<regVars, life>>

\* handleToolCall returns to the first-pass handler, which disposes and returns
ToolReturn ==
    /\ cpu = 3 /\ tc.pc \in {"t_run", "t_done"}
    /\ tc' = [tc EXCEPT !.pc = "returned"]
    /\ Dispose(1)
    /\ Return(1)
    /\ UNCHANGED <<history, lastTask, hm, msgCreated, turnsLeft, hs, cur, stopPc,
                   stopsLeft, budget, tr>>
    /\ UNCHANGED <<regVars, life>>

\* the catch block of handleToolCall: the ERROR event
ToolCatch ==
    /\ cpu = 3 /\ tc.pc = "t_catch"
    /\ \E ok \in OkSet(tr) :
         /\ tr' = Event(tr, 0, "AI_STATE_ERROR", ok)
         /\ tc' = [tc EXCEPT !.pc = "t_cev", !.res = ok]
    /\ cpu' = 0
    /\ UNCHANGED <<history, lastTask, handlers, hm, msgCreated, turnsLeft, hs, pc, cur,
                   subscribed, stopPc, stopsLeft, budget>>
    /\ UNCHANGED <<regVars, life>>

\* the catch block: the event settled; the message is overwritten (or the catch
\* block itself throws, and the first-pass handler's catch calls handleError)
ToolCatchSignalled ==
    /\ cpu = 0 /\ tc.pc = "t_cev"
    /\ IF tc.res
       THEN \E ok \in OkSet(tr) :
              /\ tr' = Write(tr, 0, ToolApology, ok, "error")
              /\ tc' = [tc EXCEPT !.pc = "t_cupd", !.res = ok]
              /\ cpu' = 0
              /\ UNCHANGED pc
       ELSE /\ tc' = [tc EXCEPT !.pc = "threw"]
            /\ Goto(1, "herror")
            /\ UNCHANGED tr
    /\ UNCHANGED <<history, lastTask, handlers, hm, msgCreated, turnsLeft, hs, cur,
                   subscribed, stopPc, stopsLeft, budget>>
    /\ UNCHANGED <<regVars, life>>

\* the catch block: the write settled
ToolCatchWritten ==
    /\ cpu = 0 /\ tc.pc = "t_cupd"
    /\ tr' = Resolve(tr, 0)
    /\ IF tc.res
       THEN /\ tc' = [tc EXCEPT !.pc = "t_done"]
            /\ cpu' = 3
            /\ UNCHANGED pc
       ELSE /\ tc' = [tc EXCEPT !.pc = "threw"]
            /\ Goto(1, "herror")
    /\ UNCHANGED <<history, lastTask, handlers, hm, msgCreated, turnsLeft, hs, cur,
                   subscribed, stopPc, stopsLeft, budget>>
    /\ UNCHANGED <<regVars, life>>

(* ---------------------- OpenAIAgent.handleMessage --------------------- *)
\* The inbound "message.new" events.
Inbound ==
    { [ai |-> FALSE, text |-> "hello", task |-> ""],
      [ai |-> FALSE, text |-> "hello", task |-> "Writing Task: blog"],
      [ai |-> TRUE, text |-> "reply", task |-> ""],
      [ai |-> FALSE, text |-> "", task |-> ""],
      [ai |-> TRUE, text |-> "", task |-> ""] }

\* no "message.new" event
NoMessage == [ai |-> FALSE, text |-> "none", task |-> ""]

\* a variant that lets the Agent's own messages through
IgnoredEmptyOnly(m) == m.text = ""

\* the guards of handleMessage
Ignored(m) == m.ai \/ m.text = ""

\* Nothing of the previous turn is still running.
Quiescent ==
    /\ cpu = 0
    /\ hm.pc \in {"idle", "done", "threw"}
    /\ \A h \in Handlers : pc[h] \in {"none", "ret"}
    /\ tc.pc \in {"idle", "returned", "threw"}
    /\ \A h \in Handlers : \A k \in 1..MaxStops : stopPc[h][k] \in {"none", "fin"}

\* handleMessage(e) up to its first await: the guards, lastInteractionTs (a
\* logical clock), the user entry, the prompt rewrite,
\* sendMessage({text: "", ai_generated: true}).  The handlers and the message of
\* the turn before are left behind.  A user message arrives when the turn before
\* is over; an event that fails the guards (the echo of the Agent's own
\* placeholder among them) may also arrive in the middle of a turn.
HandleMessage(m) ==
    /\ cpu = 0 /\ life.listening
    /\ \/ Quiescent /\ turnsLeft > 0
       \/ ~Quiescent /\ Ignored(m) /\ life.echoes < budget.ignored
    /\ turnsLeft' = IF Quiescent THEN turnsLeft - 1 ELSE turnsLeft
    /\ life' = [life EXCEPT !.inbound = m,
                            !.lastInteractionTs = IF Ignored(m) THEN @ ELSE @ + 1,
                            !.echoes = IF Quiescent THEN @ ELSE @ + 1]
    /\ IF Ignored(m)
       THEN UNCHANGED <<history, lastTask, handlers, hm, msgCreated, hs, pc, cur,
                        subscribed, tc, stopPc, tr>>
       ELSE \E ok \in OkSet(tr) :
              /\ history' = PushUser(history, m)
              /\ lastTask' = IF m.task # "" THEN m.task ELSE lastTask
              /\ tr' = Failed(NewTransport(tr.fails), ok)
              /\ msgCreated' = ok
              /\ hm' = [pc |-> IF ok THEN "m_sent" ELSE "threw", res |-> ok]
              /\ hs' = [h \in Handlers |-> NewHandler]
              /\ pc' = [h \in Handlers |-> "none"]
              /\ cur' = [h \in Handlers |-> NoFrame]
              /\ subscribed' = {}
              /\ handlers' = {}
              /\ tc' = NewTc
              /\ stopPc' = NoStops
    /\ UNCHANGED <<stopsLeft, budget, cpu>>
    /\ UNCHANGED regVars

\* the placeholder exists; the THINKING event
MessageSent ==
    /\ cpu = 0 /\ hm.pc = "m_sent"
    /\ \E ok \in OkSet(tr) :
         /\ tr' = Event(tr, 0, "AI_STATE_THINKING", ok)
         /\ hm' = [pc |-> "m_think", res |-> ok]
    /\ UNCHANGED <<history, lastTask, handlers, msgCreated, turnsLeft, hs, pc, cur,
                   subscribed, tc, stopPc, stopsLeft, budget, cpu>>
    /\ UNCHANGED <<regVars, life>>

\* the THINKING event settled; the first completion request, with the tool declared
FirstRequest ==
    /\ cpu = 0 /\ hm.pc = "m_think"
    /\ IF hm.res
       THEN \E ok \in OkSet(tr) :
              /\ tr' = Request(tr, FirstRequestTools, ok)
              /\ hm' = [pc |-> "m_req", res |-> ok]
       ELSE /\ hm' = [hm EXCEPT !.pc = "threw"]
            /\ UNCHANGED tr
    /\ UNCHANGED <<history, lastTask, handlers, msgCreated, turnsLeft, hs, pc, cur,
                   subscribed, tc, stopPc, stopsLeft, budget, cpu>>
    /\ UNCHANGED <<regVars, life>>

\* a variant whose catch block only logs
FirstPassSilent ==
    /\ cpu = 0 /\ hm.pc = "m_req"
    /\ IF hm.res
       THEN /\ hs' = [hs EXCEPT ![1] = NewHandler]
            /\ pc' = [pc EXCEPT ![1] = "loop"]
            /\ subscribed' = subscribed \cup {1}
            /\ handlers' = handlers \cup {1}
       ELSE UNCHANGED <<hs, pc, subscribed, handlers>>
    /\ hm' = [hm EXCEPT !.pc = "done"]
    /\ UNCHANGED <<history, lastTask, msgCreated, turnsLeft, cur, tc, stopPc, stopsLeft,
                   budget, cpu, tr>>
    /\ UNCHANGED <<regVars, life>>

\* the stream is there: new GeminiResponseHandler, handlers.push, void run();
\* or the request failed: the catch block's ERROR event
FirstPass ==
    /\ cpu = 0 /\ hm.pc = "m_req"
    /\ IF hm.res
       THEN /\ hs' = [hs EXCEPT ![1] = NewHandler]
            /\ pc' = [pc EXCEPT ![1] = "loop"]
            /\ subscribed' = subscribed \cup {1}
            /\ handlers' = handlers \cup {1}
            /\ hm' = [hm EXCEPT !.pc = "done"]
            /\ UNCHANGED tr
       ELSE /\ \E ok \in OkSet(tr) :
                 /\ tr' = Event(tr, 0, "AI_STATE_ERROR", ok)
                 /\ hm' = [pc |-> "m_cev", res |-> ok]
            /\ UNCHANGED <<hs, pc, subscribed, handlers>>
    /\ UNCHANGED <<history, lastTask, msgCreated, turnsLeft, cur, tc, stopPc, stopsLeft,
                   budget, cpu>>
    /\ UNCHANGED <<regVars, life>>

\* the catch block: the event settled; the failure notice is written
RequestFailedSignalled ==
    /\ cpu = 0 /\ hm.pc = "m_cev"
    /\ IF hm.res
       THEN \E ok \in OkSet(tr) :
              /\ tr' = Write(tr, 0, Apology, ok, "error")
              /\ hm' = [pc |-> "m_cupd", res |-> ok]
       ELSE /\ hm' = [hm EXCEPT !.pc = "threw"]
            /\ UNCHANGED tr
    /\ UNCHANGED <<history, lastTask, handlers, msgCreated, turnsLeft, hs, pc, cur,
                   subscribed, tc, stopPc, stopsLeft, budget, cpu>>
    /\ UNCHANGED <<regVars, life>>

\* the catch block: the write settled
RequestFailedWritten ==
    /\ cpu = 0 /\ hm.pc = "m_cupd"
    /\ tr' = Resolve(tr, 0)
    /\ hm' = [hm EXCEPT !.pc = IF hm.res THEN "done" ELSE "threw"]
    /\ UNCHANGED <<history, lastTask, handlers, msgCreated, turnsLeft, hs, pc, cur,
                   subscribed, tc, stopPc, stopsLeft, budget, cpu>>
    /\ UNCHANGED <<regVars, life>>

(* -------------- GeminiResponseHandler.handleStopGenerating ------------ *)
\* a variant that leaves the flag alone
StopHandlerNoFlag(g) == g

\* One listener's synchronous part: is_done = true and the marker write.
StopHandler(g) == [g EXCEPT !.is_done = TRUE]

StopText(g) == g.message_text \o StopMarker

\* The "ai_indicator.stop" events: for this message, for another message of the
\* channel, for another channel.
StopEvents == { [cid |-> "c1", message_id |-> "m1"], [cid |-> "c1", message_id |-> "m2"],
                [cid |-> "c2", message_id |-> "m1"] }

\* this.message of every handler of the turn
HandlerMessage == [cid |-> "c1", id |-> "m1"]

\* a variant of the guard that compares the channel only
StopGuardCidOnly(ev) == ev.cid = HandlerMessage.cid

\* the id guard of handleStopGenerating lets the event through
StopGuard(ev) == ev.cid = HandlerMessage.cid /\ ev.message_id = HandlerMessage.id

\* An "ai_indicator.stop" event: every subscribed handler's listener runs, in
\* subscription order, up to its first await (or returns at the id guard).
StopEvent(ev) ==
    /\ cpu = 0 /\ stopsLeft > 0 /\ msgCreated
    /\ StopGuard(ev) \/ \E h \in subscribed : hs[h].ignored < budget.ignored
    /\ LET hit == IF StopGuard(ev) THEN subscribed ELSE {}
       IN  /\ stopsLeft' = IF hit # {} THEN stopsLeft - 1 ELSE stopsLeft
           /\ \E ok1 \in (IF 1 \in hit THEN OkSet(tr) ELSE {TRUE}) :
                LET t1 == IF 1 \in hit
                          THEN Write(tr, 1, StopText(hs[1]), ok1, "stop") ELSE tr
                IN  \E ok2 \in (IF 2 \in hit /\ t1.fails < budget.fails
                                 THEN {TRUE, FALSE} ELSE {TRUE}) :
                      /\ tr' = IF 2 \in hit
                               THEN Write(t1, 2, StopText(hs[2]), ok2, "stop") ELSE t1
                      /\ stopPc' = [h \in Handlers |->
                                      IF h \in hit
                                      THEN [stopPc[h] EXCEPT ![StopIndex] =
                                              IF (IF h = 1 THEN ok1 ELSE ok2)
                                              THEN "w_ok" ELSE "w_fail"]
                                      ELSE stopPc[h]]
           /\ hs' = [h \in Handlers |->
                      IF h \in hit
                      THEN [StopHandler(hs[h]) EXCEPT
                              !.stoppedAt = IF @ = None THEN pc[h] ELSE @,
                              !.stoppedBy = IF @ = NoEvent THEN ev ELSE @]
                      ELSE IF h \in subscribed /\ hs[h].ignored < budget.ignored
                      THEN [hs[h] EXCEPT !.ignored = @ + 1]
                      ELSE hs[h]]
    /\ UNCHANGED <<history, lastTask, handlers, hm, msgCreated, turnsLeft, pc, cur,
                   subscribed, tc, budget, cpu>>
    /\ UNCHANGED <<regVars, life>>

\* the marker write settled; the DONE event, or catch and finally dispose()
StopWritten(h, k) ==
    /\ cpu = 0 /\ stopPc[h][k] \in {"w_ok", "w_fail"}
    /\ IF stopPc[h][k] = "w_ok"
       THEN /\ \E ok \in OkSet(tr) : tr' = Event(Resolve(tr, h), h, "AI_STATE_DONE", ok)
            /\ stopPc' = [stopPc EXCEPT ![h][k] = "e"]
            /\ UNCHANGED <<subscribed, handlers>>
       ELSE /\ tr' = Resolve(tr, h)
            /\ stopPc' = [stopPc EXCEPT ![h][k] = "fin"]
            /\ Dispose(h)
    /\ UNCHANGED <<history, lastTask, hm, msgCreated, turnsLeft, hs, pc, cur, tc,
                   stopsLeft, budget, cpu>>
    /\ UNCHANGED <<regVars, life>>

\* the DONE event settled; finally dispose()
StopSignalled(h, k) ==
    /\ cpu = 0 /\ stopPc[h][k] = "e"
    /\ stopPc' = [stopPc EXCEPT ![h][k] = "fin"]
    /\ Dispose(h)
    /\ UNCHANGED <<history, lastTask, hm, msgCreated, turnsLeft, hs, pc, cur, tc,
                   stopsLeft, budget, cpu, tr>>
    /\ UNCHANGED <<regVars, life>>

(* ----------------------- OpenAIAgent.dispose -------------------------- *)
\* dispose() up to its await: chatClient.off("message.new"), then
\* disconnectUser() is issued; the connection is released when the call succeeds
AgentDispose ==
    /\ cpu = 0 /\ life.pc = "live"
    /\ \E ok \in BOOLEAN :
         life' = [life EXCEPT !.listening = FALSE, !.connected = ~ok,
                              !.pc = "disc", !.res = ok]
    /\ UNCHANGED turnVars
    /\ UNCHANGED regVars

\* disconnectUser() settled: handlers.forEach(dispose), handlers = []; a rejection
\* leaves dispose() before the loop
AgentDisconnected ==
    /\ cpu = 0 /\ life.pc = "disc"
    /\ life' = [life EXCEPT !.pc = IF life.res THEN "done" ELSE "threw"]
    /\ IF life.res
       THEN /\ subscribed' = subscribed \ handlers
            /\ handlers' = {}
       ELSE UNCHANGED <<subscribed, handlers>>
    /\ UNCHANGED <<history, lastTask, hm, msgCreated, turnsLeft, hs, pc, cur, tc,
                   stopPc, stopsLeft, budget, cpu, tr>>
    /\ UNCHANGED regVars

(* --------------------------- the turn --------------------------------- *)
SystemEntry == Entry("system", Prompt(""))

\* init(): conversationHistory = [{role: "system", content: prompt}]
\* ignored: the events a listener may receive and drop at its guard while a turn
\* runs (stop events for other messages, inbound events that start no turn)
InitTurnWith(turns, frames, frameSet, stops, fails, outcomes, hist, ignored) ==
    /\ history = hist
    /\ lastTask = ""
    /\ handlers = {}
    /\ hm = [pc |-> "idle", res |-> TRUE]
    /\ msgCreated = FALSE
    /\ turnsLeft = turns
    /\ hs = [h \in Handlers |-> NewHandler]
    /\ pc = [h \in Handlers |-> "none"]
    /\ cur = [h \in Handlers |-> NoFrame]
    /\ subscribed = {}
    /\ tc = NewTc
    /\ stopPc = NoStops
    /\ stopsLeft = stops
    /\ budget = [frames |-> frames, frameSet |-> frameSet, fails |-> fails,
                 outcomes |-> outcomes, ignored |-> ignored]
    /\ cpu = 0
    /\ tr = NewTransport(0)
    /\ life = [listening |-> TRUE, connected |-> TRUE, pc |-> "live", res |-> TRUE,
               lastInteractionTs |-> 0, inbound |-> NoMessage, echoes |-> 0]

InitTurn(turns, frames, frameSet, stops, fails, outcomes, hist) ==
    InitTurnWith(turns, frames, frameSet, stops, fails, outcomes, hist, 0)

\* a /stop-ai-agent request or a sweep pass that has not started
NewOp == [pc |-> "new", agent |-> 0, now |-> 0, ts |-> 0, deleted |-> 0]

InitReg ==
    /\ cache = 0
    /\ pending = FALSE
    /\ callPc = [c \in 1..MaxCalls |-> "new"]
    /\ agentSt = [c \in 1..MaxCalls |-> "none"]
    /\ installs = <<>>
    /\ clock = 0
    /\ lastTs = [c \in 1..MaxCalls |-> 0]
    /\ op = [o \in 1..(MaxStopCalls + MaxSweeps) |-> NewOp]

\* the provider outcomes of the general run: no credential, or results
FewOutcomes == {o \in ProviderOutcomes :
                  ~o.fetchThrows /\ o.ok /\ ~o.textThrows /\ ~o.jsonThrows /\ ~o.answer
                  /\ ~o.badResult /\ (o.key <=> o.results > 0)}

Init ==
    /\ InitTurn(1, MaxFrames, FrameSet, MaxStops, MaxFails, FewOutcomes, <<SystemEntry>>)
    /\ InitReg

HandlerStep(h) ==
    \/ \E f \in budget.frameSet : NextFrame(h, f)
    \/ StreamEnd(h)
    \/ StreamThrow(h)
    \/ ToolDeltaResume(h)
    \/ UpdateResume(h)
    \/ PostLoop(h)
    \/ FinishMessage(h)
    \/ FinishWritten(h)
    \/ FinishSignalled(h)
    \/ HandleError(h)
    \/ ErrorSignalled(h)
    \/ ErrorWritten(h)
    \/ ParseToolCall(h)

ToolCallStep ==
    \/ ToolSearch
    \/ ToolSearched
    \/ ToolFollowUp
    \/ ToolSecondPass
    \/ ToolReturn
    \/ ToolCatch
    \/ ToolCatchSignalled
    \/ ToolCatchWritten

MessageStep ==
    \/ \E m \in Inbound : HandleMessage(m)
    \/ MessageSent
    \/ FirstRequest
    \/ FirstPass
    \/ RequestFailedSignalled
    \/ RequestFailedWritten

StopStep ==
    \/ \E ev \in StopEvents : StopEvent(ev)
    \/ \E h \in Handlers : \E k \in 1..MaxStops : StopWritten(h, k)
    \/ \E h \in Handlers : \E k \in 1..MaxStops : StopSignalled(h, k)

NextTurn ==
    \/ MessageStep
    \/ \E h \in Handlers : HandlerStep(h)
    \/ ToolCallStep
    \/ StopStep

Next == NextTurn

\* One user turn, any frames, stop events and collaborator failures.
Spec == Init /\ [][Next]_vars

\* One user turn whose streams deliver text, or the whole tool call in one frame;
\* the search provider answers in every way it can.
PassFrames == TextFrames \cup {ToolFrame("web_search", "call1", <<"O", "C">>, "tool_calls")}

InitPass ==
    /\ InitTurn(1, MaxPassFrames, PassFrames, MaxPassStops, MaxFails, ProviderOutcomes,
                <<SystemEntry>>)
    /\ InitReg

SpecPass == InitPass /\ [][Next]_vars

\* Several user turns of an Agent that has already completed p plain turns.
HistFrames ==
    { TextFrame(<<"b">>, "stop"),
      ToolFrame("web_search", "call1", <<"O", "C">>, "tool_calls") }

RECURSIVE PriorHistory(_)
PriorHistory(p) ==
    IF p = 0 THEN <<SystemEntry>>
    ELSE OnComplete(PushUser(PriorHistory(p - 1),
                             [ai |-> FALSE, text |-> "hello", task |-> ""]), <<"b">>)

InitHist ==
    /\ \E p \in 0..MaxPriorTurns :
         InitTurn(MaxTurns, MaxFrames, HistFrames, MaxPassStops, MaxFails, FewOutcomes,
                  PriorHistory(p))
    /\ InitReg

SpecHist == InitHist /\ [][Next]_vars

\* One user turn whose first stream delivers a tool call in fragments.
ArgsFrames ==
    { ToolFrame("web_search", "call1", <<"O">>, None),
      ToolFrame("", "", <<"L">>, None),
      ToolFrame("", "", <<"D">>, None),
      ToolFrame("", "", <<"D">>, "tool_calls"),
      TextFrame(<<>>, "tool_calls"),
      TextFrame(<<"b">>, "stop") }

InitArgs ==
    /\ InitTurn(1, MaxArgFrames, ArgsFrames, MaxPassStops, MaxFails, FewOutcomes,
                <<SystemEntry>>)
    /\ InitReg

SpecArgs == InitArgs /\ [][Next]_vars

\* One user turn whose stream delivers text frames only, up to MaxTextFrames of
\* them, at any pace.
StreamFrames == {TextFrame(<<"a">>, None), TextFrame(<<"a">>, "stop")}

InitStream ==
    /\ InitTurn(1, MaxTextFrames, StreamFrames, MaxPassStops, MaxFails, FewOutcomes,
                <<SystemEntry>>)
    /\ InitReg

StreamStep(h) ==
    \/ \E f \in budget.frameSet : NextFrame(h, f)
    \/ StreamEnd(h)
    \/ StreamThrow(h)
    \/ UpdateResume(h)
    \/ PostLoop(h)
    \/ FinishMessage(h)
    \/ FinishWritten(h)
    \/ FinishSignalled(h)
    \/ HandleError(h)
    \/ ErrorSignalled(h)
    \/ ErrorWritten(h)

NextStream ==
    \/ MessageStep
    \/ StreamStep(1)
    \/ StopStep

SpecStream == InitStream /\ [][NextStream]_vars

\* One user turn during which stop events for other messages and other channels
\* arrive as well.
InitScope ==
    /\ InitTurnWith(1, MaxPassFrames, HistFrames \cup {TextFrame(<<"a">>, None)},
                    MaxPassStops, MaxFails, FewOutcomes, <<SystemEntry>>, MaxIgnored)
    /\ InitReg

SpecScope == InitScope /\ [][Next]_vars

\* One user turn during which the Agent is torn down.
DisposeStep ==
    \/ AgentDispose
    \/ AgentDisconnected

InitDispose ==
    /\ InitTurn(1, MaxFrames, HistFrames, MaxPassStops, MaxFails, FewOutcomes,
                <<SystemEntry>>)
    /\ InitReg

NextDispose ==
    \/ NextTurn
    \/ DisposeStep

SpecDispose == InitDispose /\ [][NextDispose]_vars

(* ------------------- index.ts: POST /start-ai-agent ------------------- *)
Calls == 1..MaxCalls

\* a variant without the finally block
RespondKeep(c) ==
    /\ pending' = pending
    /\ callPc' = [callPc EXCEPT ![c] = "returned"]

\* finally { pendingAiAgents.delete(user_id) }, after res.json(...)
Respond(c) ==
    /\ pending' = FALSE
    /\ callPc' = [callPc EXCEPT ![c] = "returned"]

\* The request arrives: the guard on aiAgentCache and pendingAiAgents; either the
\* key is marked pending and upsertUser is awaited, or the request answers at once.
StartAgent(c) ==
    /\ callPc[c] = "new"
    /\ IF cache = 0 /\ ~pending
       THEN /\ pending' = TRUE
            /\ callPc' = [callPc EXCEPT ![c] = "upsert"]
       ELSE Respond(c)
    /\ UNCHANGED <<cache, agentSt, installs>>
    /\ UNCHANGED opVars
    /\ UNCHANGED <<turnVars, life>>

\* upsertUser settled; channel.addMembers is awaited
UserUpserted(c) ==
    /\ callPc[c] = "upsert"
    /\ callPc' = [callPc EXCEPT ![c] = "members"]
    /\ UNCHANGED <<cache, pending, agentSt, installs>>
    /\ UNCHANGED opVars
    /\ UNCHANGED <<turnVars, life>>

\* addMembers settled; createAgent is awaited
MembersAdded(c) ==
    /\ callPc[c] = "members"
    /\ callPc' = [callPc EXCEPT ![c] = "create"]
    /\ UNCHANGED <<cache, pending, agentSt, installs>>
    /\ UNCHANGED opVars
    /\ UNCHANGED <<turnVars, life>>

\* createAgent settled: the Agent exists (lastInteractionTs = Date.now()),
\* agent.init() runs and is awaited
AgentCreated(c) ==
    /\ callPc[c] = "create"
    /\ agentSt' = [agentSt EXCEPT ![c] = "inited"]
    /\ callPc' = [callPc EXCEPT ![c] = "init"]
    /\ lastTs' = [lastTs EXCEPT ![c] = clock]
    /\ UNCHANGED <<cache, pending, installs, clock, op>>
    /\ UNCHANGED <<turnVars, life>>

\* a variant without the final check
InstallAlways(c) == TRUE

\* the final check: !aiAgentCache.has(user_id)
InstallCheck(c) == cache = 0

\* init() settled: the final check, then aiAgentCache.set and the answer, or
\* agent.dispose() is awaited
AgentInited(c) ==
    /\ callPc[c] = "init"
    /\ IF InstallCheck(c)
       THEN /\ cache' = c
            /\ installs' = Append(installs, c)
            /\ agentSt' = [agentSt EXCEPT ![c] = "installed"]
            /\ Respond(c)
       ELSE /\ agentSt' = [agentSt EXCEPT ![c] = "disposing"]
            /\ callPc' = [callPc EXCEPT ![c] = "dispose"]
            /\ UNCHANGED <<cache, pending, installs>>
    /\ UNCHANGED opVars
    /\ UNCHANGED <<turnVars, life>>

\* agent.dispose() settled; the answer
AgentDisposed(c) ==
    /\ callPc[c] = "dispose"
    /\ agentSt' = [agentSt EXCEPT ![c] = "disposed"]
    /\ Respond(c)
    /\ UNCHANGED <<cache, installs>>
    /\ UNCHANGED opVars
    /\ UNCHANGED <<turnVars, life>>

\* GET /agent-status: what it answers for the key
AgentStatus ==
    IF cache # 0 THEN "connected"
    ELSE IF pending THEN "connecting"
    ELSE "disconnected"

\* the requests that are creating an Agent: from the pending mark to the final check
Creating == {c \in Calls : callPc[c] \in {"upsert", "members", "create", "init"}}

NextReg ==
    \E c \in Calls :
      \/ StartAgent(c)
      \/ UserUpserted(c)
      \/ MembersAdded(c)
      \/ AgentCreated(c)
      \/ AgentInited(c)
      \/ AgentDisposed(c)

\* Concurrent /start-ai-agent requests for one channel, every collaborator call
\* succeeding.
SpecReg == Init /\ [][NextReg]_vars

(* ------------- index.ts: /stop-ai-agent and the idle sweep ------------ *)
StopCalls == 1..MaxStopCalls
Sweeps == (MaxStopCalls + 1)..(MaxStopCalls + MaxSweeps)

\* time passes
Tick ==
    /\ clock < MaxClock
    /\ clock' = clock + 1
    /\ UNCHANGED <<cache, pending, callPc, agentSt, installs, lastTs, op>>
    /\ UNCHANGED <<turnVars, life>>

\* the Agent of request c handles a user message: lastInteractionTs = Date.now()
Interaction(c) ==
    /\ agentSt[c] \in {"inited", "installed"} /\ lastTs[c] # clock
    /\ lastTs' = [lastTs EXCEPT ![c] = clock]
    /\ UNCHANGED <<cache, pending, callPc, agentSt, installs, clock, op>>
    /\ UNCHANGED <<turnVars, life>>

\* getLastInteraction() is older than the threshold at time now
Inactive(now, a) == now - lastTs[a] > InactivityThreshold

\* disposeAiAgent(aiAgent) up to its first await: aiAgent.dispose() is issued
DisposeIssued(a) ==
    agentSt' = [agentSt EXCEPT ![a] = IF @ = "disposed" THEN @ ELSE "disposing"]

\* POST /stop-ai-agent: aiAgentCache.get; disposeAiAgent is awaited, or the
\* request answers at once
StopAgent(o) ==
    /\ o \in StopCalls /\ op[o].pc = "new"
    /\ IF cache # 0
       THEN /\ DisposeIssued(cache)
            /\ op' = [op EXCEPT ![o] = [@ EXCEPT !.pc = "dispose", !.agent = cache]]
       ELSE /\ op' = [op EXCEPT ![o].pc = "returned"]
            /\ UNCHANGED agentSt
    /\ UNCHANGED <<cache, pending, callPc, installs, clock, lastTs>>
    /\ UNCHANGED <<turnVars, life>>

\* one pass of the setInterval callback over the entry of the key: now is read,
\* the entry is compared; disposeAiAgent is awaited, or the pass ends
SweepPass(o) ==
    /\ o \in Sweeps /\ op[o].pc = "new"
    /\ IF cache # 0 /\ Inactive(clock, cache)
       THEN /\ DisposeIssued(cache)
            /\ op' = [op EXCEPT ![o] = [@ EXCEPT !.pc = "dispose", !.agent = cache,
                                                 !.now = clock, !.ts = lastTs[cache]]]
       ELSE /\ op' = [op EXCEPT ![o] = [@ EXCEPT !.pc = "returned", !.now = clock]]
            /\ UNCHANGED agentSt
    /\ UNCHANGED <<cache, pending, callPc, installs, clock, lastTs>>
    /\ UNCHANGED <<turnVars, life>>

\* aiAgentCache.delete(user_id) after disposeAiAgent returned; the answer
CacheDelete(o) ==
    /\ cache' = 0
    /\ op' = [op EXCEPT ![o] = [@ EXCEPT !.pc = "returned", !.deleted = cache]]

\* aiAgent.dispose() settled: deleteUser is awaited when the client still has a
\* user, otherwise disposeAiAgent returns and the key is deleted
DisposeSettled(o) ==
    /\ op[o].pc = "dispose"
    /\ agentSt' = [agentSt EXCEPT ![op[o].agent] = "disposed"]
    /\ \E hasUser \in BOOLEAN :
         IF hasUser
         THEN /\ op' = [op EXCEPT ![o].pc = "deluser"]
              /\ UNCHANGED cache
         ELSE CacheDelete(o)
    /\ UNCHANGED <<pending, callPc, installs, clock, lastTs>>
    /\ UNCHANGED <<turnVars, life>>

\* serverClient.deleteUser settled: disposeAiAgent returns and the key is deleted
UserDeleted(o) ==
    /\ op[o].pc = "deluser"
    /\ CacheDelete(o)
    /\ UNCHANGED <<pending, callPc, agentSt, installs, clock, lastTs>>
    /\ UNCHANGED <<turnVars, life>>

\* an awaited call of a creating request rejects: the catch block answers 500 and
\* the finally block deletes the key from pendingAiAgents
StartFailed(c) ==
    /\ callPc[c] \in {"upsert", "members", "create", "init", "dispose"}
    /\ callPc' = [callPc EXCEPT ![c] = "failed"]
    /\ pending' = FALSE
    /\ agentSt' = [agentSt EXCEPT ![c] = IF callPc[c] = "init" THEN "failed" ELSE @]
    /\ UNCHANGED <<cache, installs>>
    /\ UNCHANGED opVars
    /\ UNCHANGED <<turnVars, life>>

NextTime ==
    \/ Tick
    \/ \E c \in Calls : Interaction(c)

NextSweep ==
    \/ NextReg
    \/ NextTime
    \/ \E o \in Sweeps : SweepPass(o) \/ DisposeSettled(o) \/ UserDeleted(o)

\* /start-ai-agent requests and passes of the idle sweep for one channel
SpecSweep == Init /\ [][NextSweep]_vars

NextLifecycle ==
    \/ NextSweep
    \/ \E o \in StopCalls : StopAgent(o) \/ DisposeSettled(o) \/ UserDeleted(o)

\* /start-ai-agent and /stop-ai-agent requests and passes of the idle sweep
SpecLifecycle == Init /\ [][NextLifecycle]_vars

NextRegFail ==
    \/ NextReg
    \/ \E c \in Calls : StartFailed(c)

\* /start-ai-agent requests whose awaited calls may reject
SpecRegFail == Init /\ [][NextRegFail]_vars

\* the awaited call of request c settles
Settles(c) ==
    \/ UserUpserted(c)
    \/ MembersAdded(c)
    \/ AgentCreated(c)
    \/ AgentInited(c)
    \/ AgentDisposed(c)
    \/ StartFailed(c)

\* ... and every awaited call settles in the end
SpecRegFailFair == SpecRegFail /\ \A c \in Calls : WF_vars(Settles(c))

(* ===================== properties of one turn ========================= *)
\* C1: for one message no two Response Handlers are active at once: the second-pass
\* handler exists only when the first-pass handler has set its guard flag and has
\* unsubscribed from the stop events, and the two never have a
\* partialUpdateMessage in flight together.
C1_OneHandlerAtATime ==
    /\ pc[2] # "none" => (hs[1].is_done /\ 1 \notin subscribed)
    /\ ~(tr.pendingUpd[1] > 0 /\ tr.pendingUpd[2] > 0)

\* C2: however often a handler is finalized (normal, error and cancel path), it
\* emits at most one terminal indicator event, performs at most one final write
\* and calls the completion callback at most once.
C2_FinalizeOnce ==
    \A h \in Handlers :
      /\ tr.termEvents[h] <= 1
      /\ tr.finalWrites[h] <= 1
      /\ tr.completes[h] <= 1

\* Every stop listener that was triggered has run to its end.
CancelHandled ==
    /\ \E h \in Handlers : \E k \in 1..MaxStops : stopPc[h][k] = "fin"
    /\ \A h \in Handlers : \A k \in 1..MaxStops : stopPc[h][k] \in {"none", "fin"}

\* finishMessage or handleError of h is awaiting the transport.
Finalizing(h) == pc[h] \in {"fin1", "fin2", "err1", "err2"}

\* C3: once a matching stop event has been handled, no step of the same turn (other
\* than another stop event) writes the message, emits an indicator event, or
\* invokes the tool-call callback.  Stated for the runs the claim singles out: no
\* collaborator call has failed and no handler was already finalizing.
C3_NothingAfterCancel ==
    [][(/\ CancelHandled /\ tr.fails = 0
        /\ \A h \in Handlers : ~Finalizing(h)
        /\ stopsLeft' = stopsLeft /\ turnsLeft' = turnsLeft)
         => /\ tr'.nWrites = tr.nWrites
            /\ tr'.nEvents = tr.nEvents
            /\ tr'.toolCalls = tr.toolCalls]_vars

\* The turn has run to its end: nothing is left that could still act.
TurnOver == Quiescent /\ hm.pc = "done" /\ pc[1] = "ret"

\* C4: a turn that created its placeholder, met no collaborator failure and has
\* run to its end has emitted a terminal indicator (DONE or ERROR).
C4_TerminalIndicator ==
    (TurnOver /\ msgCreated /\ tr.fails = 0) => Terminal(tr.indicator)

\* C6: a turn issues at most two completion requests and runs at most one search;
\* the second request declares no tools, and the tool-call callback is invoked at
\* most once whatever the second stream delivers.
C6_TwoRequestsOneSearch ==
    /\ Len(tr.reqLog) <= 2
    /\ tr.searchCount <= 1
    /\ tr.toolCalls <= 1
    /\ Len(tr.reqLog) = 2 => (tr.reqLog[1] /\ ~tr.reqLog[2])

\* The second stream ended with finish_reason tool_calls and run() returned.
C6_Witness ==
    /\ Len(tr.reqLog) = 2 /\ tr.searchCount = 1
    /\ pc[2] = "ret" /\ hs[2].lastFinishReason = "tool_calls" /\ hs[2].is_tool_call

\* C7: a handler whose stream delivered only text frames (textOnly) writes texts
\* each of which extends the one before; when it completes, the text written by finishMessage and the
\* text handed to the completion callback are the concatenation of the frames'
\* contents in arrival order.
C7_TextGrows ==
    \A h \in Handlers :
      hs[h].textOnly =>
        /\ tr.grew[h]
        /\ tr.completes[h] > 0 =>
             /\ tr.finishText[h] = hs[h].delivered
             /\ tr.completeArg[h] = hs[h].delivered

\* The second pass streamed "a" then "b" with stop, with a partial update between.
C7_Witness ==
    /\ tr.completes[2] = 1 /\ hs[2].textOnly /\ hs[2].updated
    /\ hs[2].delivered = <<"a", "b">> /\ tr.msg = <<"a", "b">>

\* C10: performWebSearch never raises: for every provider outcome it returns one
\* of its strings, and the string is the tool result appended to the history.
C10_SearchNeverRaises ==
    /\ ~tr.searchRaised
    /\ \A o \in ProviderOutcomes :
         /\ ~PerformWebSearch(o).raised /\ PerformWebSearch(o).value \in SearchStrings
         /\ ~PerformWebSearchV1(o).raised /\ PerformWebSearchV1(o).value \in SearchStrings
    /\ tc.pc = "t_search" => (tc.res /\ tc.result \in SearchStrings)
    /\ tc.pc = "t_ev2" =>
         history[Len(history)] = Entry("system", <<"RESULTS_FOR", tc.args.query, tc.result>>)
    /\ tr.searchCount > 0 /\ tc.pc # "t_search" =>
         \E i \in 2..Len(history) :
            history[i] = Entry("system", <<"RESULTS_FOR", tc.args.query, tc.result>>)

\* The provider call threw and the error string was injected as the tool result.
C10_Witness ==
    /\ tc.pc = "t_ev2" /\ tc.result = "ERROR_PERFORMING_SEARCH"
    /\ history[Len(history)].content[3] = "ERROR_PERFORMING_SEARCH"

(* ===================== properties of the history ====================== *)
\* a step in which a completion callback runs leaves at most 21 entries
CappedOnComplete ==
    (\E h \in Handlers : tr'.completes[h] > tr.completes[h])
      => (Len(history') <= HistoryLimit)

\* a step that rewrites the prompt keeps every other entry and adds the user entry
RewrittenInPlace ==
    (lastTask' # lastTask)
      => (/\ Len(history') = Len(history) + 1
          /\ SubSeq(history', 2, Len(history)) = SubSeq(history, 2, Len(history)))

\* C8: whenever a completion callback has run, the history has at most 21 entries;
\* entry 0 always has role system and holds the prompt of the latest writing task;
\* the step that rewrites the prompt changes the length only by the user entry it
\* pushes.
C8_HistoryCapped ==
    /\ [](history[1].role = "system" /\ history[1].content = Prompt(lastTask))
    /\ [][CappedOnComplete /\ RewrittenInPlace]_vars

\* A second pass completed on a full history with a writing task: the oldest
\* entries are gone, the rewritten prompt is still entry 0.
C8_Witness ==
    /\ tr.completes[2] = 1 /\ Len(history) = HistoryLimit
    /\ lastTask # "" /\ history[1].content = Prompt(lastTask)
    /\ history[2].role = "assistant"
    /\ history[HistoryLimit].role = "assistant"

\* C9: in every reachable state the history is no longer than the most a
\* completing turn leaves behind (the limit, plus the user and the tool entry of
\* the turn in progress), however the turns end.
C9_HistoryBounded == Len(history) <= HistoryLimit + 2

(* ===================== properties of the registry ===================== *)
AllReturned == \A c \in Calls : callPc[c] = "returned"

\* C5: once every /start-ai-agent request for the key has returned, exactly one
\* Agent is in the registry, it was installed once, and every other Agent that
\* was constructed has been disposed and was never installed.
C5_OneAgentInstalled ==
    AllReturned =>
      /\ cache \in Calls /\ installs = <<cache>> /\ agentSt[cache] = "installed"
      /\ \A c \in Calls \ {cache} : agentSt[c] \in {"none", "disposed"}

\* Two requests each constructed an Agent (the answer of a third request cleared
\* the pending mark of the first): one is installed, the other disposed.
C5_Witness ==
    /\ AllReturned
    /\ \E c \in Calls : agentSt[c] = "installed"
    /\ \E c \in Calls : agentSt[c] = "disposed"

(* ================ properties of cancellation and failure ============== *)
\* C11: when a stop event has been handled while the search or the follow-up
\* request of the turn is in flight (the first-pass handler is still inside its
\* tool-call callback), the call's result is discarded: no second-pass handler is
\* started, and no further write or indicator event is issued.
C11_ResultDiscarded ==
    [][(/\ CancelHandled /\ tr.fails = 0
        /\ pc[1] = "tool" /\ tc.pc \in {"t_search", "t_req"}
        /\ stopsLeft' = stopsLeft /\ turnsLeft' = turnsLeft)
         => /\ pc'[2] = "none"
            /\ tr'.nWrites = tr.nWrites
            /\ tr'.nEvents = tr.nEvents]_vars

\* C12: no collaborator failure leaves handleMessage as a rejected promise: the
\* handler of the "message.new" event never ends by throwing.
C12_NothingPropagates == hm.pc # "threw"

\* C13: while a request is creating an Agent for the key, the key is in the
\* pending set, no second request is creating one, and /agent-status does not
\* answer "disconnected".
C13_PendingHeld ==
    Creating # {} =>
      /\ pending
      /\ Cardinality(Creating) = 1
      /\ AgentStatus # "disconnected"

(* ====================== properties of the teardown ==================== *)
\* C14: the step of dispose() that releases the connection to the chat transport
\* is taken only when the Agent no longer listens for inbound messages and every
\* handler it created is disposed; and when releasing the connection has failed,
\* the handlers are disposed all the same.
C14_TeardownOrder ==
    [][/\ (life.connected /\ ~life'.connected)
            => (~life'.listening /\ handlers = {} /\ subscribed = {})
       /\ (life'.pc = "threw") => (handlers' = {} /\ subscribed' = {})]_vars

(* =================== properties of the tool-call path ================= *)
\* No stop event has reached a handler of the turn.
NoStopHit == \A h \in Handlers : \A k \in 1..MaxStops : stopPc[h][k] = "none"

\* C15: when the stream of the first pass has delivered the web_search call in
\* argument fragments whose concatenation in arrival order parses, and has ended
\* with finish_reason tool_calls (no call fails, no stop event hits), then once
\* run() has returned the buffer was that concatenation, the callback was invoked
\* exactly once with the arguments parsed from it, and the handler wrote no final
\* message, emitted no DONE or ERROR and did not invoke the completion callback.
C15_FragmentsConcatenated ==
    (/\ pc[1] = "ret" /\ tr.fails = 0 /\ NoStopHit
     /\ hs[1].current_tool_name = "web_search"
     /\ hs[1].lastFinishReason = "tool_calls"
     /\ ParseOk(hs[1].argsSeen))
      => /\ hs[1].tool_call_buffer = hs[1].argsSeen
         /\ tr.toolCalls = 1
         /\ tc.args = ParseArgs(hs[1].argsSeen)
         /\ tr.finalWrites[1] = 0 /\ tr.termEvents[1] = 0 /\ tr.completes[1] = 0
         /\ 1 \notin subscribed /\ 1 \notin handlers

\* Three fragments in three frames and the finish_reason in a fourth.
C15_Witness ==
    /\ pc[1] = "ret" /\ tr.fails = 0 /\ NoStopHit
    /\ hs[1].frames = 4 /\ hs[1].argsSeen = <<"O", "L", "D">>
    /\ tr.toolCalls = 1 /\ tc.args.query = "latest AI news"

\* C16: when the first-pass handler has received finish_reason tool_calls with an
\* argument buffer that is empty, white space only or unparseable (no call fails,
\* no stop event hits), then once run() has returned ERROR was emitted once, the
\* message is the accumulated text or the apology, the callback was not invoked,
\* no search ran and no second model request was issued.
C16_BadArgsIsError ==
    (/\ pc[1] = "ret" /\ tr.fails = 0 /\ NoStopHit
     /\ hs[1].lastFinishReason = "tool_calls"
     /\ (TrimEmpty(hs[1].tool_call_buffer) \/ ~ParseOk(hs[1].tool_call_buffer)))
      => /\ tr.termEvents[1] = 1 /\ tr.indicator = "AI_STATE_ERROR"
         /\ tr.msg = (IF hs[1].message_text # <<>> THEN hs[1].message_text
                      ELSE Apology)
         /\ tr.toolCalls = 0 /\ tr.searchCount = 0 /\ Len(tr.reqLog) = 1

\* C17: when the stream of a handler has ended without any finish_reason after a
\* tool-call fragment was received (no call fails, no stop event hits), then once
\* run() has returned ERROR was emitted once by the handler, the message is the
\* accumulated text or the apology, and neither the tool-call callback nor the
\* completion callback was invoked by it.
C17_UnfinishedToolCallIsError ==
    \A h \in Handlers :
      (/\ pc[h] = "ret" /\ tr.fails = 0 /\ NoStopHit
       /\ hs[h].is_tool_call /\ hs[h].lastFinishReason = None)
        => /\ tr.termEvents[h] = 1 /\ tr.finalWrites[h] = 1
           /\ tr.indicator = "AI_STATE_ERROR"
           /\ tr.msg = (IF hs[h].message_text # <<>> THEN hs[h].message_text
                        ELSE Apology)
           /\ tr.completes[h] = 0
           /\ (h = 1 => tr.toolCalls = 0)
           /\ h \notin subscribed /\ h \notin handlers

\* The first stream delivered text and an argument fragment, then ended.
C17_Witness ==
    /\ pc[1] = "ret" /\ tr.fails = 0 /\ NoStopHit
    /\ hs[1].is_tool_call /\ hs[1].lastFinishReason = None
    /\ hs[1].frames = 2 /\ hs[1].message_text = <<"a">> /\ tr.msg = <<"a">>
    /\ tr.indicator = "AI_STATE_ERROR"

\* C18: when iterating a handler's stream has thrown (no other call fails, no stop
\* event hits), then once run() has returned the handler has taken the error path
\* exactly once: one ERROR event and one final write, the message is the text
\* accumulated so far or the apology, the completion callback was not invoked, and
\* the handler is unsubscribed and removed from the Agent's list.
C18_StreamThrowIsError ==
    \A h \in Handlers :
      (pc[h] = "ret" /\ hs[h].threw /\ tr.fails = 1 /\ NoStopHit)
        => /\ tr.termEvents[h] = 1 /\ tr.finalWrites[h] = 1
           /\ tr.indicator = "AI_STATE_ERROR"
           /\ tr.msg = (IF hs[h].message_text # <<>> THEN hs[h].message_text
                        ELSE Apology)
           /\ tr.completes[h] = 0
           /\ h \notin subscribed /\ h \notin handlers

\* The stream threw after a text frame.
C18_Witness ==
    /\ pc[1] = "ret" /\ hs[1].threw /\ tr.fails = 1 /\ NoStopHit
    /\ hs[1].delivered = <<"a">> /\ tr.msg = <<"a">>
    /\ tr.indicator = "AI_STATE_ERROR"

\* C19: when the second-pass handler (which has no tool-call callback) has
\* received finish_reason tool_calls (no call fails, no stop event hits), then once
\* run() has returned the accumulated text was written as the final content, DONE
\* was emitted and the completion callback was invoked with that text.
C19_ToolCallsWithoutCallbackCompletes ==
    (/\ pc[2] = "ret" /\ tr.fails = 0 /\ NoStopHit
     /\ hs[2].lastFinishReason = "tool_calls")
      => /\ tr.finalWrites[2] = 1 /\ tr.msg = hs[2].message_text
         /\ tr.termEvents[2] = 1 /\ tr.indicator = "AI_STATE_DONE"
         /\ tr.completes[2] = 1 /\ tr.completeArg[2] = hs[2].message_text

(* ==================== properties of the stop listener ================= *)
\* run() of a handler is inside its loop: waiting for a frame or for a call of
\* the loop body
StreamingAt == {"loop", "upd", "evExt"}

\* the step in which a stop event reaches h
StopReaches(h) ==
    \E k \in 1..MaxStops : stopPc[h][k] = "none" /\ stopPc'[h][k] # "none"

\* C20: a matching stop event that reaches a handler while it is streaming sets
\* the handler's done flag and issues the write of the accumulated text followed by
\* the stop marker in one step (before any await); when that listener has run to
\* its end the handler is unsubscribed and removed from the Agent's list, DONE has
\* been emitted by it if no call failed, and the handler's completion callback is
\* never invoked.
C20_CancelWhileStreaming ==
    /\ [][\A h \in Handlers :
            (pc[h] \in StreamingAt /\ StopReaches(h))
              => /\ hs'[h].is_done
                 /\ tr'.pendingUpd[h] = tr.pendingUpd[h] + 1
                 /\ \/ tr'.fails > tr.fails
                    \/ /\ tr'.lastWrite[h] = hs[h].message_text \o StopMarker
                       /\ tr'.finalWrites[h] = tr.finalWrites[h] + 1]_vars
    /\ [](\A h \in Handlers :
            hs[h].stoppedAt \in StreamingAt
              => /\ tr.completes[h] = 0
                 /\ \A k \in 1..MaxStops :
                      stopPc[h][k] = "fin"
                        => /\ h \notin subscribed /\ h \notin handlers
                           /\ tr.fails = 0 => tr.termEvents[h] >= 1)

\* The second-pass handler was cancelled between two text frames; its listener
\* has run to its end.
C20_Witness ==
    /\ hs[2].stoppedAt = "loop" /\ hs[2].message_text = <<"a">>
    /\ \E k \in 1..MaxStops : stopPc[2][k] = "fin"
    /\ tr.fails = 0 /\ tr.msg = <<"a">> \o StopMarker
    /\ tr.indicator = "AI_STATE_DONE" /\ pc[2] = "ret"

\* a stop event for another message or another channel reaches h's listener
IgnoredBy(h) == hs'[h].ignored = hs[h].ignored + 1

\* C21: a stop event whose conversation id or message id differs from a handler's
\* leaves that handler's fields (done flag, text, tool-call buffer), its
\* subscription and its stop listener's state unchanged and causes no message write
\* and no indicator event; and the event that cancels a handler always carries the
\* handler's own conversation id and message id.
C21_CancelScopedToMessage ==
    /\ [][\A h \in Handlers :
            IgnoredBy(h)
              => /\ hs'[h] = [hs[h] EXCEPT !.ignored = @ + 1]
                 /\ subscribed' = subscribed /\ handlers' = handlers
                 /\ stopPc' = stopPc /\ pc' = pc
                 /\ tr' = tr]_vars
    /\ [](\A h \in Handlers :
            /\ hs[h].stoppedBy # NoEvent
                 => /\ hs[h].stoppedBy.cid = HandlerMessage.cid
                    /\ hs[h].stoppedBy.message_id = HandlerMessage.id
            /\ (\A k \in 1..MaxStops : stopPc[h][k] = "none")
                 => hs[h].stoppedBy = NoEvent)

\* Two stop events for other messages reached the streaming first-pass handler,
\* which then went on to complete its text.
C21_Witness ==
    /\ hs[1].ignored = 2 /\ hs[1].stoppedBy = NoEvent
    /\ hs[1].delivered = <<"a", "b">> /\ tr.completes[1] = 1
    /\ tr.msg = <<"a", "b">> /\ tr.indicator = "AI_STATE_DONE"

(* ================= properties of the message handler ================== *)
\* C22: when the first completion request of the turn has failed (and no other
\* call fails), no handler is created, subscribed or left in the Agent's list and
\* the history gets no assistant entry; once handleMessage has returned, the Agent
\* has emitted ERROR once and the message is the failure notice.
C22_RequestFailureIsReported ==
    (tr.reqFails = 1 /\ Len(tr.reqLog) = 1 /\ tr.fails = 1)
      => /\ handlers = {} /\ subscribed = {}
         /\ \A h \in Handlers : pc[h] = "none"
         /\ \A i \in 1..Len(history) : history[i].role # "assistant"
         /\ hm.pc \in {"m_req", "m_cev", "m_cupd", "done"}
         /\ hm.pc = "done"
              => /\ tr.termEvents[0] = 1 /\ tr.indicator = "AI_STATE_ERROR"
                 /\ tr.finalWrites[0] = 1 /\ tr.msg = Apology

\* The request failed and handleMessage has returned.
C22_Witness ==
    /\ tr.reqFails = 1 /\ Len(tr.reqLog) = 1 /\ tr.fails = 1
    /\ hm.pc = "done" /\ tr.msg = Apology /\ tr.indicator = "AI_STATE_ERROR"
    /\ Len(history) = 2

\* a "message.new" event is delivered in this step
Delivered == turnsLeft' # turnsLeft \/ life'.echoes # life.echoes

\* C23: handleMessage on an inbound event that is flagged ai_generated or has empty
\* text changes nothing: the history, the prompt context and lastInteractionTs are
\* unchanged, no placeholder is created, no write, indicator event or model
\* request is issued, and the handlers and the running turn are left as they were.
C23_IgnoredMessageChangesNothing ==
    [][(Delivered /\ (life'.inbound.ai \/ life'.inbound.text = ""))
         => /\ history' = history /\ lastTask' = lastTask
            /\ life'.lastInteractionTs = life.lastInteractionTs
            /\ msgCreated' = msgCreated /\ tr' = tr
            /\ hm' = hm /\ tc' = tc
            /\ handlers' = handlers /\ subscribed' = subscribed
            /\ hs' = hs /\ pc' = pc]_vars

\* The echo of the Agent's own placeholder arrived in the middle of the turn,
\* which then completed.
C23_Witness ==
    /\ life.echoes = 1 /\ life.inbound = [ai |-> TRUE, text |-> "", task |-> ""]
    /\ life.lastInteractionTs = 1
    /\ tr.completes[1] = 1 /\ Len(history) = 3 /\ Len(tr.reqLog) = 1

(* ================= properties of the registry's requests ============== *)
\* C24: a /start-ai-agent request that arrives while the key has an entry or is
\* marked pending leaves the registry map and the pending set exactly as they were
\* and constructs no Agent.
C24_StartIsNoOp ==
    [][\A c \in Calls :
         (callPc[c] = "new" /\ callPc'[c] # "new" /\ (cache # 0 \/ pending))
           => /\ cache' = cache /\ pending' = pending
              /\ agentSt' = agentSt /\ installs' = installs
              /\ callPc'[c] = "returned"]_vars

\* the positions of a request between its pending mark and its answer
Marked == {"upsert", "members", "create", "init", "dispose"}

Answered == {"returned", "failed"}

Scans(o) == op[o].pc = "new" /\ op'[o].pc # "new"

Removes(o) == op[o].pc # "returned" /\ op'[o].pc = "returned" /\ cache' # cache

C26_SweepRemovesIdleOnly ==
    [][\A o \in Sweeps :
         /\ (Scans(o) /\ cache # 0 /\ clock - lastTs[cache] <= InactivityThreshold)
              => /\ cache' = cache /\ agentSt' = agentSt
                 /\ op'[o].pc = "returned"
         /\ (Scans(o) /\ cache # 0 /\ clock - lastTs[cache] > InactivityThreshold)
              => /\ op'[o].agent = cache
                 /\ agentSt'[cache] \in {"disposing", "disposed"}
         /\ Removes(o)
              => /\ cache = op[o].agent
                 /\ agentSt'[cache] = "disposed"
                 /\ op[o].now - op[o].ts > InactivityThreshold]_vars

\* C27: while a handler streams text frames, updateMessage() issues a write no
\* later than the fifth text frame buffered since the last one, whatever the
\* elapsed time: fewer than five text frames are ever buffered without a write
\* having been issued for them, and as long as no transport call has failed the
\* text written to the message lacks fewer than five of the frames received.
C27_UpdateByFifthFrame ==
    \A h \in Handlers :
      ~hs[h].is_done
        => /\ hs[h].buffered < 5
           /\ tr.fails = 0
                => /\ IsPrefix(tr.lastWrite[h], hs[h].message_text)
                   /\ Len(hs[h].message_text) - Len(tr.lastWrite[h]) < 5

\* the tenth text frame has been written by the third update: the updates at the
\* fifth and the tenth frame were due by the count
C27_Witness ==
    /\ ~hs[1].is_done /\ pc[1] = "upd"
    /\ hs[1].chunk_counter = 10 /\ hs[1].buffered = 0
    /\ tr.fails = 0 /\ tr.nWrites = 3 /\ Len(tr.lastWrite[1]) = 10

\* C28: under any interleaving of /start-ai-agent, /stop-ai-agent and idle-sweep
\* executions for one key, an entry leaves the registry only after that same
\* Agent was disposed; hence every Agent that is initialized and not disposed is
\* the registry entry, and once all operations have returned at most one such
\* Agent exists.
Live == {c \in Calls : agentSt[c] \in {"inited", "installed"}}

OpsReturned ==
    /\ \A c \in Calls : callPc[c] \in {"new", "returned", "failed"}
    /\ \A o \in StopCalls \cup Sweeps : op[o].pc \in {"new", "returned"}

C28_RemovedOnlyAfterDisposed ==
    /\ [][(cache # 0 /\ cache' # cache) => agentSt'[cache] = "disposed"]_vars
    /\ [](\A c \in Calls : agentSt[c] = "installed" => cache = c)
    /\ [](OpsReturned => Live \subseteq {cache})

\* C29: once Agent.dispose() has returned, no Response Handler of the Agent issues
\* a further partialUpdateMessage or indicator event, whatever its stream still
\* delivers: no step of a handler (its frame loop, its finalization, its stop
\* listener) starts a write or emits an event from then on.
HandlerActs(h) == pc'[h] # pc[h] \/ hs'[h] # hs[h] \/ stopPc'[h] # stopPc[h]

C29_SilentAfterDispose ==
    [][\A h \in Handlers :
         (life.pc = "done" /\ HandlerActs(h))
           => /\ tr'.pendingUpd[h] <= tr.pendingUpd[h]
              /\ tr'.nEvents = tr.nEvents]_vars

\* C30: an assistant entry is appended to the history only by normal
\* finalization, after both the final write and the DONE event of finishMessage
\* have succeeded: the completion callback runs for no handler that a stop event
\* has cancelled or whose stream has thrown, a finishMessage whose write or event
\* failed adds nothing, and a handler that leaves finishMessage, handleError or
\* its stop listener is unsubscribed and off the Agent's handler list.
AssistantEntries == Cardinality({i \in 1..Len(history) : history[i].role = "assistant"})

Completes(h) == tr'.completes[h] > tr.completes[h]

Cancelled(h) == \E k \in 1..MaxStops : stopPc[h][k] # "none"

LeavesFinalization(h) ==
    \/ pc[h] \in {"fin1", "fin2", "err1", "err2"} /\ pc'[h] \notin {"fin1", "fin2", "err1", "err2"}
    \/ \E k \in 1..MaxStops : stopPc[h][k] # "fin" /\ stopPc'[h][k] = "fin"

C30_EntryOnlyOnCleanFinish ==
    /\ [][\A h \in Handlers :
            Completes(h)
              => /\ pc[h] = "fin2" /\ hs[h].res
                 /\ tr.finishText[h] = hs[h].message_text
                 /\ tr.termEvents[h] >= 1
                 /\ ~Cancelled(h) /\ ~hs[h].threw
                 /\ history' = OnComplete(history, hs[h].message_text)]_vars
    /\ [][(AssistantEntries' > AssistantEntries) => \E h \in Handlers : Completes(h)]_vars
    /\ [][\A h \in Handlers :
            LeavesFinalization(h) => (h \notin subscribed' /\ h \notin handlers')]_vars

====
